---- MODULE Spec2Model ----
(***************************************************************************)
(* A model of the DDP solver of unittest/bindings/utils.py (DDPDerived).   *)
(*                                                                         *)
(* State: the solver object's fields, the data payload of the shooting     *)
(* problem, and the position of the running solve() call.  Each step of    *)
(* solve() (loop head, direction computation, except handler, one line     *)
(* search trial, end-of-iteration update) is one action.                   *)
(*                                                                         *)
(* Numbers.                                                                *)
(*  - States, controls, gaps and costs are scalars (nx = ndx = nu = 1)     *)
(*    held as exact integers; costs are stored in units of 1/2.            *)
(*  - Regularization values are decimal floating point numbers <<m, e>>    *)
(*    standing for m * 10^e (m = 0 is zero), so that regMin = 1e-9 and     *)
(*    regMax = 1e9 keep their values.                                      *)
(*  - Step sizes are stored in units of 2^-9 (alphas = 512, 256, .., 1).   *)
(*  - The derivative data and the quantities of the backward pass are      *)
(*    computed in an abstract domain:                                      *)
(*         "z"   exactly zero                                              *)
(*         "p"   positive and finite                                       *)
(*         "f"   finite, sign unknown                                      *)
(*         "nan" NaN, Inf, or magnitude beyond the 1e30 safety bound       *)
(*    Where the abstract value does not decide a test of the code (the     *)
(*    Cholesky factorization of an "f" Quu, a comparison with a            *)
(*    tolerance) every outcome of the test is a successor.                 *)
(***************************************************************************)
EXTENDS Integers, Sequences, FiniteSets, TLC

\* ------------------------------------------------------------------ bounds
T == 2           \* number of running stages of the shooting problem
MaxIter == 2     \* largest maxiter passed to solve
MaxCalls == 2    \* solve calls made on one solver object
MaxFaults == 1   \* numerical faults injected during one solve call
CountCap == 3    \* the observation counters saturate here

\* ------------------------------------------------------- program constants
NaN == -1000                     \* np.nan: a non-finite scalar
nAlphas == 10                    \* range(10) of self.alphas
alphas == [n \in 1..nAlphas |-> 2^(nAlphas - n)]   \* 2^-(n-1), in units of 2^-9
th_step == 256                   \* .5, in units of 2^-9
regFactorExp == 1                \* regFactor = 10 = 10^1
regMax == <<1, 9>>               \* 1e9
regMinExp == -9
regMin == <<1, regMinExp>>       \* 1e-9
RegZero == <<0, 0>>              \* self.x_reg = 0 of __init__

Stages == 1..T
Min(a, b) == IF a < b THEN a ELSE b

\* ------------------------------------------------ regularization arithmetic
RegLess(a, b) ==
    IF a[1] = 0 THEN b[1] # 0
    ELSE IF b[1] = 0 THEN FALSE
    ELSE a[2] < b[2] \/ (a[2] = b[2] /\ a[1] < b[1])

RegTimesFactor(r) == IF r[1] = 0 THEN r ELSE <<r[1], r[2] + regFactorExp>>
RegOverFactor(r) == IF r[1] = 0 THEN r ELSE <<r[1], r[2] - regFactorExp>>

\* ------------------------------------------------------- abstract scalars
Abs == {"z", "p", "f", "nan"}

AAdd(a, b) ==
    IF a = "nan" \/ b = "nan" THEN "nan"
    ELSE IF a = "z" THEN b
    ELSE IF b = "z" THEN a
    ELSE IF a = "p" /\ b = "p" THEN "p"
    ELSE "f"

AMul(a, b) ==
    IF a = "nan" \/ b = "nan" THEN "nan"
    ELSE IF a = "z" \/ b = "z" THEN "z"
    ELSE IF a = "p" /\ b = "p" THEN "p"
    ELSE "f"

ASub(a, b) ==
    IF a = "nan" \/ b = "nan" THEN "nan"
    ELSE IF b = "z" THEN a
    ELSE "f"

AMul3(a, b, c) == AMul(AMul(a, b), c)

\* the abstract value of an exact integer
AbsOf(n) == IF n = NaN THEN "nan" ELSE IF n = 0 THEN "z" ELSE IF n > 0 THEN "p" ELSE "f"

\* raiseIfNan(A, error): TRUE when it raises
raiseIfNan(A) == A = "nan"

\* --------------------------------------------------------------- the problem
\* Two action models stand for the ActionModel contract:
\*   "zero": zero cost and identity dynamics (xnext = x);
\*   "lq"  : linear dynamics xnext = x + u with cost 0.5 (x^2 + u^2), whose
\*           evaluations may also return non-finite values (a faulty model).
Kinds == {"zero", "lq"}

VARIABLES
    kind, x0,                 \* problem.runningModels / terminalModel, problem.initialState
    datas, termData,          \* problem.runningDatas, problem.terminalData
    xs, us, isFeasible,       \* the candidate of SolverAbstract
    wasFeasible,
    x_reg, u_reg,
    cost, cost_try, xs_try, us_try,
    gaps,
    Qu, Quu, K, k,            \* per stage, abstract
    d1, d2, d1lt,             \* expectedImprovement(), and the test d1 < th_grad
    stop, stoplt,             \* stoppingCriteria(), and the test stop < th_stop
    stepLength, iter,
    pc, maxiter, i, recalc, a,   \* the frame of the running solve call
    outcome, converged,       \* how solve ended and the boolean it returned
    calls,                    \* solve calls made so far
    faults,                   \* numerical faults injected in the current call
    args,                     \* the arguments of the current solve call
    obs,                      \* observations of the current iteration (history)
    hist                      \* observations of the current solve call (history)

\* ActionModel.calc: next state and cost (cost in units of 1/2)
ModelCalc(kd, x, u) ==
    [xnext |-> IF kd = "zero" THEN x ELSE x + u,
     cost  |-> IF kd = "zero" THEN 0 ELSE x * x + u * u]

\* ActionModel.calcDiff: the derivative fields, abstract
ModelCalcDiff(kd, x, u) ==
    IF kd = "zero"
    THEN [Lx |-> "z", Lu |-> "z", Lxx |-> "z", Luu |-> "z", Lxu |-> "z",
          Fx |-> "p", Fu |-> "z"]
    ELSE [Lx |-> AbsOf(x), Lu |-> AbsOf(u), Lxx |-> "p", Luu |-> "p", Lxu |-> "z",
          Fx |-> "p", Fu |-> "p"]

TermCalc(kd, x) == IF kd = "zero" THEN 0 ELSE x * x
TermCalcDiff(kd, x) ==
    IF kd = "zero" THEN [Lx |-> "z", Lxx |-> "z"] ELSE [Lx |-> AbsOf(x), Lxx |-> "p"]

\* A faulty model returns a non-finite derivative field: none, the cost
\* gradient Lx of the last running stage, or the cost Hessian Lxx of the
\* terminal stage (which becomes the value Hessian Vxx[T]).
Faults(kd) == IF kd = "zero" THEN {"none"} ELSE {"none", "Lx", "Lxx_T"}

StageData(kd, x, u, fault) ==
    LET c == ModelCalc(kd, x, u)
        d == ModelCalcDiff(kd, x, u)
    IN [xnext |-> c.xnext, cost |-> c.cost,
        Lx |-> IF fault = "Lx" THEN "nan" ELSE d.Lx,
        Lu |-> d.Lu, Lxx |-> d.Lxx, Luu |-> d.Luu,
        Lxu |-> d.Lxu, Fx |-> d.Fx, Fu |-> d.Fu]

RECURSIVE SumSeq(_, _)
SumSeq(f, n) == IF n = 0 THEN 0 ELSE f[n] + SumSeq(f, n - 1)

\* problem.calcDiff(xs, us): every stage's data at the candidate, total cost
ProblemCalcDiff(kd, cxs, cus, fault) ==
    LET ds == [s \in Stages |->
                 StageData(kd, cxs[s], cus[s], IF s = T THEN fault ELSE "none")]
        tdiff == TermCalcDiff(kd, cxs[T + 1])
        td == [cost |-> TermCalc(kd, cxs[T + 1]), Lx |-> tdiff.Lx,
               Lxx |-> IF fault = "Lxx_T" THEN "nan" ELSE tdiff.Lxx]
    IN [datas |-> ds, termData |-> td,
        cost |-> SumSeq([s \in Stages |-> ds[s].cost], T) + td.cost]

\* State.diff(x0, x1) of the flat manifold
Diff(xa, xb) == IF xa = NaN \/ xb = NaN THEN NaN ELSE xb - xa

\* DDPDerived.calc: the record of what it leaves in (datas, termData, cost, gaps)
calc(kd, px0, cxs, cus, feas, oldgaps, fault) ==
    LET r == ProblemCalcDiff(kd, cxs, cus, fault)
    IN [datas |-> r.datas, termData |-> r.termData, cost |-> r.cost,
        gaps |-> IF ~feas
                 THEN [g \in 1..(T + 1) |->
                         IF g = 1 THEN Diff(cxs[1], px0)
                         ELSE Diff(cxs[g], r.datas[g - 1].xnext)]
                 ELSE oldgaps]

\* ------------------------------------------------------------ backward pass
\* scl.cho_factor(Quu): positive definite or not; a non-finite matrix is
\* refused by its finiteness check with a ValueError
cho_factor(q) ==
    CASE q = "nan" -> {"ValueError"}
      [] q = "p"   -> {"ok"}
      [] q = "z"   -> {"LinAlgError"}
      [] q = "f"   -> {"ok", "LinAlgError"}

\* A factorization that finds a Quu of unknown sign not positive definite
\* counts as a numerical fault of the call.
IsFactorFault(q, c) == q = "f" /\ c = "LinAlgError"

\* scl.cho_solve(Lb, b) with Lb the factor of a positive definite matrix
cho_solve(b) == b

\* variant of computeGains that swallows a failed factorization and keeps the
\* stage's old gains
computeGainsSwallow(q, qux, qu, oldK, oldk) ==
    {[fault |-> IsFactorFault(q, c)] @@
     (IF c = "ValueError"
      THEN [status |-> "ValueError", K |-> oldK, k |-> oldk, wrote |-> FALSE]
      ELSE IF c = "LinAlgError"
      THEN [status |-> "ok", K |-> oldK, k |-> oldk, wrote |-> FALSE]
      ELSE IF qux = "nan"
      THEN [status |-> "ValueError", K |-> oldK, k |-> oldk, wrote |-> FALSE]
      ELSE IF qu = "nan"
      THEN [status |-> "ValueError", K |-> cho_solve(qux), k |-> oldk, wrote |-> FALSE]
      ELSE [status |-> "ok", K |-> cho_solve(qux), k |-> cho_solve(qu), wrote |-> TRUE])
     : c \in cho_factor(q)}

\* DDPDerived.computeGains on one stage: the set of its outcomes.  LinAlgError
\* is turned into ArithmeticError; any other exception passes through.  wrote
\* tells that both gains of the stage were assigned.
computeGains(q, qux, qu, oldK, oldk) ==
    {[fault |-> IsFactorFault(q, c)] @@
     (IF c = "ValueError"
      THEN [status |-> "ValueError", K |-> oldK, k |-> oldk, wrote |-> FALSE]
      ELSE IF c = "LinAlgError"
      THEN [status |-> "ArithmeticError", K |-> oldK, k |-> oldk, wrote |-> FALSE]
      ELSE IF qux = "nan"
      THEN [status |-> "ValueError", K |-> oldK, k |-> oldk, wrote |-> FALSE]
      ELSE IF qu = "nan"
      THEN [status |-> "ValueError", K |-> cho_solve(qux), k |-> oldk, wrote |-> FALSE]
      ELSE [status |-> "ok", K |-> cho_solve(qux), k |-> cho_solve(qu), wrote |-> TRUE])
     : c \in cho_factor(q)}

\* One stage of the loop of backwardPass.  acc holds Qu, Quu, K, k (per stage)
\* and fresh, the stages whose gains this pass has written.
BackwardStage(s, Vxn, Vxxn, d, gapn, feas, xr, ur, acc) ==
    LET Qxx == AAdd(d.Lxx, AMul3(d.Fx, Vxxn, d.Fx))
        Qxu == AAdd(d.Lxu, AMul3(d.Fx, Vxxn, d.Fu))
        Quu0 == AAdd(d.Luu, AMul3(d.Fu, Vxxn, d.Fu))
        Qx0 == AAdd(d.Lx, AMul(d.Fx, Vxn))
        Qu0 == AAdd(d.Lu, AMul(d.Fu, Vxn))
        relin == AMul(Vxxn, AbsOf(gapn))
        Qx1 == IF ~feas THEN AAdd(Qx0, AMul(d.Fx, relin)) ELSE Qx0
        Qu1 == IF ~feas THEN AAdd(Qu0, AMul(d.Fu, relin)) ELSE Qu0
        Quu1 == IF ur # RegZero THEN AAdd(Quu0, "p") ELSE Quu0
    IN {LET Vx == IF ur = RegZero
                  THEN ASub(Qx1, AMul(g.K, Qu1))
                  ELSE AAdd(ASub(Qx1, AMul(g.K, Qu1)), AMul3(g.K, Quu1, g.k))
            Vxx0 == ASub(Qxx, AMul(Qxu, g.K))
            Vxx == IF xr # RegZero THEN AAdd(Vxx0, "p") ELSE Vxx0
        IN [status |-> IF g.status # "ok" THEN g.status
                       ELSE IF raiseIfNan(Vxx) \/ raiseIfNan(Vx) THEN "ArithmeticError"
                       ELSE "ok",
            Vx |-> Vx, Vxx |-> Vxx, fault |-> g.fault,
            acc |-> [Qu  |-> [acc.Qu EXCEPT ![s] = Qu1],
                     Quu |-> [acc.Quu EXCEPT ![s] = Quu1],
                     K   |-> [acc.K EXCEPT ![s] = g.K],
                     k   |-> [acc.k EXCEPT ![s] = g.k],
                     fresh |-> IF g.wrote THEN acc.fresh \cup {s} ELSE acc.fresh]]
        : g \in computeGains(Quu1, Qxu, Qu1, acc.K[s], acc.k[s])}

RECURSIVE BackwardFrom(_, _, _, _, _, _, _, _, _)
BackwardFrom(s, Vxn, Vxxn, ds, gp, feas, xr, ur, acc) ==
    IF s = 0 THEN {[status |-> "ok", acc |-> acc, fault |-> FALSE]}
    ELSE UNION {IF r.status = "ok"
                THEN BackwardFrom(s - 1, r.Vx, r.Vxx, ds, gp, feas, xr, ur, r.acc)
                ELSE {[status |-> r.status, acc |-> r.acc, fault |-> r.fault]}
                : r \in BackwardStage(s, Vxn, Vxxn, ds[s], gp[s + 1], feas, xr, ur, acc)}

\* DDPDerived.backwardPass: the set of its outcomes [status, acc, fault]
backwardPass(ds, td, gp, feas, xr, ur, old) ==
    LET VxT == td.Lx
        VxxT == IF xr # RegZero THEN AAdd(td.Lxx, "p") ELSE td.Lxx
    IN BackwardFrom(T, VxT, VxxT, ds, gp, feas, xr, ur,
                    [Qu |-> old.Qu, Quu |-> old.Quu, K |-> old.K, k |-> old.k,
                     fresh |-> {}])

RECURSIVE ASum(_, _)
ASum(f, n) == IF n = 0 THEN "z" ELSE AAdd(f[n], ASum(f, n - 1))

\* DDPDerived.stoppingCriteria: sum of |Qu|^2
stoppingCriteria(qu) == ASum([s \in Stages |-> AMul(qu[s], qu[s])], T)

\* DDPDerived.expectedImprovement: <<d1, d2>>
expectedImprovement(qu, quu, kk) ==
    <<ASum([s \in Stages |-> AMul(qu[s], kk[s])], T),
      ASub("z", ASum([s \in Stages |-> AMul3(kk[s], quu[s], kk[s])], T))>>

\* the outcomes of comparing an abstract value with a positive tolerance
LessThanTol(v) ==
    CASE v = "z"   -> {TRUE}
      [] v = "nan" -> {FALSE}
      [] OTHER     -> {TRUE, FALSE}

\* ------------------------------------------------------------- forward pass
Controls == {0, 1}       \* the controls of the guesses and of the trials
InitialStates == {0, 1}  \* the values of problem.initialState

\* What an evaluation of a model can return: a faulty running model may give
\* a non-finite next state, a faulty terminal model a non-finite cost.
EvalOutcomes(kd) == IF kd = "zero" THEN {"ok"} ELSE {"ok", "nanstate"}
TermEvalOutcomes(kd) == IF kd = "zero" THEN {"ok"} ELSE {"ok", "nancost"}

\* utry[t] = us[t] - k[t] * stepLength - K[t] * diff(xs[t], xtry[t]): exact when
\* both corrections vanish; otherwise the value is not determined by the
\* abstract gains and is alt, a control picked for the pass
TriedControl(s, cxs, cus, xtry, gK, gk, alt) ==
    IF gk[s] = "z" /\ (gK[s] = "z" \/ Diff(cxs[s], xtry[s]) = 0)
    THEN cus[s]
    ELSE alt

\* The loop of forwardPass from stage s on; w holds xs_try, us_try, datas and
\* the running total ctry.  Yields the set of outcomes of the pass.
RECURSIVE ForwardFrom(_, _, _, _, _, _, _, _)
ForwardFrom(s, kd, cxs, cus, gK, gk, alt, w) ==
    IF s = T + 1
    THEN {LET tc == IF ev = "ok" THEN TermCalc(kd, w.xs_try[T + 1]) ELSE NaN
          IN [ok |-> ev = "ok", fault |-> ev # "ok",
              xs_try |-> w.xs_try, us_try |-> w.us_try, datas |-> w.datas,
              termCost |-> tc,
              ctry |-> IF ev = "ok" THEN w.ctry + tc ELSE NaN,
              written |-> T]
          : ev \in TermEvalOutcomes(kd)}
    ELSE UNION {
           LET u == TriedControl(s, cxs, cus, w.xs_try, gK, gk, alt)
               c == ModelCalc(kd, w.xs_try[s], u)
               xn == IF ev = "nanstate" THEN NaN ELSE c.xnext
               cs == IF ev = "nancost" THEN NaN ELSE c.cost
               w2 == [xs_try |-> [w.xs_try EXCEPT ![s + 1] = xn],
                      us_try |-> [w.us_try EXCEPT ![s] = u],
                      datas |-> [w.datas EXCEPT ![s].xnext = xn, ![s].cost = cs],
                      ctry |-> IF ev = "ok" THEN w.ctry + cs ELSE NaN]
           IN IF ev = "ok"
              THEN ForwardFrom(s + 1, kd, cxs, cus, gK, gk, alt, w2)
              ELSE {[ok |-> FALSE, fault |-> TRUE,
                     xs_try |-> w2.xs_try, us_try |-> w2.us_try, datas |-> w2.datas,
                     termCost |-> NaN, ctry |-> NaN, written |-> s]}
           : ev \in EvalOutcomes(kd)}

\* variant of forwardPass that starts the tried trajectory from the first
\* state of the candidate
forwardPassFromCandidate(kd, cxs, cus, gK, gk, xtry, utry, ds) ==
    UNION {ForwardFrom(1, kd, cxs, cus, gK, gk, alt,
                       [xs_try |-> [xtry EXCEPT ![1] = cxs[1]], us_try |-> utry,
                        datas |-> ds, ctry |-> 0])
           : alt \in Controls}

\* DDPDerived.forwardPass(stepLength): the set of its outcomes.  ok = FALSE is
\* an ArithmeticError('forward error') raised by raiseIfNan; written is the
\* number of stages whose tried control and next tried state were written.
forwardPass(kd, cxs, cus, gK, gk, xtry, utry, ds) ==
    UNION {ForwardFrom(1, kd, cxs, cus, gK, gk, alt,
                       [xs_try |-> xtry, us_try |-> utry, datas |-> ds, ctry |-> 0])
           : alt \in Controls}

\* ------------------------------------------------------------ solver pieces
\* SolverAbstract.setCandidate(xs, us, isFeasible): stores copies
setCandidate(cxs, cus, feas) == [xs |-> cxs, us |-> cus, isFeasible |-> feas]

\* variant of increaseRegularization that caps one factor too late
increaseRegularizationLateCap(r) ==
    LET m == RegTimesFactor(r)
    IN IF RegLess(RegTimesFactor(regMax), m) THEN regMax ELSE m

\* DDPDerived.increaseRegularization: the new x_reg (u_reg is set equal to it)
increaseRegularization(r) ==
    LET m == RegTimesFactor(r) IN IF RegLess(regMax, m) THEN regMax ELSE m

\* variant of decreaseRegularization that forgets the floor regMin
decreaseRegularizationNoFloor(r) == RegOverFactor(r)

\* DDPDerived.decreaseRegularization: the new x_reg (u_reg is set equal to it)
decreaseRegularization(r) ==
    LET m == RegOverFactor(r) IN IF RegLess(m, regMin) THEN regMin ELSE m

\* variant of LoopContinues that runs one iteration more
LoopContinuesOneMore(ii, mi) == ii <= mi

\* for i in range(maxiter)
LoopContinues(ii, mi) == ii < mi

\* variant of ShouldCalc that evaluates the problem at every backward attempt
ShouldCalcAlways(rc) == TRUE

\* computeDirection: if recalc: self.calc()
ShouldCalc(rc) == rc

\* variants of AcceptStep: without the small-gradient clause, and without the
\* infeasible-candidate clause
AcceptStepNoGradientTest(d1small, feas, improved) == ~feas \/ improved
AcceptStepIgnoresFeasibility(d1small, feas, improved) == d1small \/ improved

\* the acceptance test of the line search
AcceptStep(d1small, feas, improved) == d1small \/ ~feas \/ improved

\* variant of TrialCompleted that goes on to the acceptance test after a
\* forward error as well
TrialCompletedAlways(ok) == TRUE

\* try: self.dV = self.tryStep(a) / except ArithmeticError: continue
TrialCompleted(ok) == ok

\* variant of FeasibleBeforeStep that forgets the flag held before the step
FeasibleBeforeStepTrue(feas) == TRUE

\* self.wasFeasible = self.isFeasible, before the commit
FeasibleBeforeStep(feas) == feas

\* variant of CostAfterTrial that takes the tried cost after every trial
CostAfterTrialAlways(accepted, c, ctry) == ctry

\* self.cost = self.cost_try, inside the acceptance branch
CostAfterTrial(accepted, c, ctry) == IF accepted THEN ctry ELSE c

\* self.dV_exp = a * (d1 + .5 * d2 * a)
ExpectedDV(dd1, dd2) == AMul("p", AAdd(dd1, AMul3("p", dd2, "p")))

\* the outcomes of self.dV > self.th_acceptStep * self.dV_exp
ImprovedOutcomes(v, vexp) ==
    CASE vexp = "z"   -> {v > 0}
      [] vexp = "nan" -> {FALSE}
      [] OTHER        -> {TRUE, FALSE}

\* if a > self.th_step
DecreaseAfterSearch(aa) == alphas[aa] > th_step

\* if a == self.alphas[-1]
IncreaseAfterSearch(aa) == alphas[aa] = alphas[nAlphas]

\* variant of ConvergenceTest without the feasibility lag
ConvergenceTestNoLag(wasFeas, stopSmall) == stopSmall

\* if self.wasFeasible and self.stop < self.th_stop
ConvergenceTest(wasFeas, stopSmall) == wasFeas /\ stopSmall

\* ------------------------------------------------------------------- inputs
RegInits == {[none |-> TRUE, val |-> RegZero]}
            \cup {[none |-> FALSE, val |-> v] : v \in {RegZero, <<1, 8>>, <<5, 8>>}}

\* the dynamics rollout of the controls cus from the initial state
RECURSIVE Rollout(_, _, _, _)
Rollout(kd, px0, cus, n) ==
    IF n = 1 THEN px0
    ELSE ModelCalc(kd, Rollout(kd, px0, cus, n - 1), cus[n - 1]).xnext

IsRollout(kd, px0, cxs, cus) ==
    \A n \in 1..(T + 1) : cxs[n] = Rollout(kd, px0, cus, n)

\* The initial guesses of a call: constant controls with the states of their
\* dynamics rollout, and zero controls with constant states (which may differ
\* from x0 and from the rollout).
Guesses(kd, px0) ==
    {[xs |-> [n \in 1..(T + 1) |-> Rollout(kd, px0, [s \in Stages |-> u], n)],
      us |-> [s \in Stages |-> u]] : u \in Controls}
    \cup {[xs |-> [n \in 1..(T + 1) |-> v], us |-> [s \in Stages |-> 0]]
          : v \in InitialStates}

MaxIters == {0, 1, MaxIter}

\* -------------------------------------------------------------------- state
solverVars == <<xs, us, isFeasible, wasFeasible, x_reg, u_reg, cost, cost_try,
                xs_try, us_try, gaps, Qu, Quu, K, k, d1, d2, d1lt, stop, stoplt,
                stepLength, iter>>
frameVars == <<pc, maxiter, i, recalc, a, outcome, converged, calls, faults, args>>
vars == <<kind, x0, datas, termData, solverVars, frameVars, obs, hist>>

ZeroData == [xnext |-> 0, cost |-> 0, Lx |-> "z", Lu |-> "z", Lxx |-> "z",
             Luu |-> "z", Lxu |-> "z", Fx |-> "z", Fu |-> "z"]

NewObs(feas) ==
    [feasAtStart |-> feas, accepted |-> FALSE,
     nCalc |-> 0, bwdTried |-> FALSE, incsSinceBwd |-> 0,
     snapshot |-> <<>>, rUsed |-> RegZero,
     nFwd |-> 0, nCommit |-> 0, updated |-> FALSE, stopSmall |-> FALSE,
     start |-> <<>>, calcCost |-> 0, pre |-> <<>>,
     bwd |-> [cand |-> <<>>, fresh |-> {}, ok |-> FALSE],
     trial |-> [step |-> 0, ok |-> FALSE, improved |-> FALSE, committed |-> FALSE,
                written |-> 0],
     regOps |-> <<>>]

NewHist(cxs, cus) ==
    [committed |-> <<cxs, cus>>, feasAtAccept |-> FALSE, nAccepted |-> 0, nIter |-> 0]

Bump(n) == Min(n + 1, CountCap)

\* the solver right after DDPDerived.__init__ (allocateData included)
Init ==
    /\ kind \in Kinds
    /\ x0 \in InitialStates
    /\ datas = [s \in Stages |-> ZeroData]
    /\ termData = [cost |-> 0, Lx |-> "z", Lxx |-> "z"]
    /\ xs = [n \in 1..(T + 1) |-> 0]
    /\ us = [s \in Stages |-> 0]
    /\ isFeasible = FALSE
    /\ wasFeasible = FALSE
    /\ x_reg = RegZero
    /\ u_reg = RegZero
    /\ cost = 0
    /\ cost_try = 0
    /\ xs_try = [n \in 1..(T + 1) |-> IF n = 1 THEN x0 ELSE NaN]
    /\ us_try = [s \in Stages |-> NaN]
    /\ gaps = [n \in 1..(T + 1) |-> 0]
    /\ Qu = [s \in Stages |-> "z"]
    /\ Quu = [s \in Stages |-> "z"]
    /\ K = [s \in Stages |-> "z"]
    /\ k = [s \in Stages |-> "z"]
    /\ d1 = "z" /\ d2 = "z" /\ d1lt = FALSE
    /\ stop = "z" /\ stoplt = FALSE
    /\ stepLength = 0 /\ iter = 0
    /\ pc = "idle" /\ maxiter = 0 /\ i = 0 /\ recalc = FALSE /\ a = 1
    /\ outcome = "none" /\ converged = FALSE /\ calls = 0 /\ faults = 0
    /\ args = [xs |-> xs, us |-> us, maxiter |-> 0, isFeasible |-> FALSE,
               regInit |-> [none |-> TRUE, val |-> RegZero]]
    /\ obs = NewObs(FALSE)
    /\ hist = NewHist(xs, us)

\* ------------------------------------------------------------------ actions
\* how solve leaves: return (xs, us, flag), or an exception that escapes
Leave(how, flag) ==
    /\ pc' = "done"
    /\ outcome' = how
    /\ converged' = flag

\* solve(init_xs, init_us, maxiter, isFeasible, regInit): lines 143-146
Solve(limit) ==
    /\ pc \in {"idle", "done"}
    /\ calls < limit
    /\ \E g \in Guesses(kind, x0), mi \in MaxIters, fe \in BOOLEAN, ri \in RegInits :
         LET c == setCandidate(g.xs, g.us, fe)
         IN /\ xs' = c.xs /\ us' = c.us /\ isFeasible' = c.isFeasible
            /\ x_reg' = (IF ~ri.none THEN ri.val ELSE regMin)
            /\ u_reg' = (IF ~ri.none THEN ri.val ELSE regMin)
            /\ wasFeasible' = FALSE
            /\ maxiter' = mi
            /\ args' = [xs |-> g.xs, us |-> g.us, maxiter |-> mi, isFeasible |-> fe,
                        regInit |-> ri]
            /\ hist' = NewHist(g.xs, g.us)
    /\ i' = 0
    /\ pc' = "loop"
    /\ outcome' = "none"
    /\ converged' = FALSE
    /\ calls' = calls + 1
    /\ faults' = 0
    /\ obs' = NewObs(isFeasible')
    /\ UNCHANGED <<kind, x0, datas, termData, cost, cost_try, xs_try, us_try, gaps,
                   Qu, Quu, K, k, d1, d2, d1lt, stop, stoplt,
                   stepLength, iter, recalc, a>>

\* for i in range(maxiter): recalc = True      (lines 147-148, 191-192)
LoopHead ==
    /\ pc = "loop"
    /\ IF LoopContinues(i, maxiter)
       THEN /\ recalc' = TRUE
            /\ pc' = "direction"
            /\ obs' = [NewObs(isFeasible) EXCEPT !.start = <<xs, us, cost>>]
            /\ hist' = [hist EXCEPT !.nIter = Min(@ + 1, MaxIter + 1)]
            /\ UNCHANGED <<outcome, converged>>
       ELSE /\ Leave("maxiter", FALSE)
            /\ UNCHANGED <<recalc, obs, hist>>
    /\ UNCHANGED <<kind, x0, datas, termData, solverVars, maxiter, i, a, calls, faults,
                   args>>

\* self.computeDirection(recalc=recalc), and on success lines 160-161
ComputeDirection ==
    /\ pc = "direction"
    /\ \E fault \in Faults(kind) :
         LET c == IF ShouldCalc(recalc)
                  THEN calc(kind, x0, xs, us, isFeasible, gaps, fault)
                  ELSE [datas |-> datas, termData |-> termData, cost |-> cost,
                        gaps |-> gaps]
         IN \E r \in backwardPass(c.datas, c.termData, c.gaps, isFeasible, x_reg, u_reg,
                                  [Qu |-> Qu, Quu |-> Quu, K |-> K, k |-> k]) :
            LET d == expectedImprovement(r.acc.Qu, r.acc.Quu, r.acc.k)
                n == (IF ShouldCalc(recalc) /\ fault # "none" THEN 1 ELSE 0)
                     + (IF r.fault THEN 1 ELSE 0)
            IN /\ faults + n <= MaxFaults
               /\ faults' = faults + n
               /\ datas' = c.datas /\ termData' = c.termData
               /\ cost' = c.cost /\ gaps' = c.gaps
               /\ Qu' = r.acc.Qu /\ Quu' = r.acc.Quu /\ K' = r.acc.K /\ k' = r.acc.k
               /\ obs' = [obs EXCEPT
                            !.nCalc = IF ShouldCalc(recalc) THEN Bump(@) ELSE @,
                            !.snapshot = IF ShouldCalc(recalc)
                                         THEN <<c.datas, c.termData, c.gaps>> ELSE @,
                            !.calcCost = IF ShouldCalc(recalc) THEN c.cost ELSE @,
                            !.bwdTried = TRUE,
                            !.bwd = [cand |-> <<xs, us>>, fresh |-> r.acc.fresh,
                                     ok |-> r.status = "ok"],
                            !.incsSinceBwd = 0,
                            !.rUsed = x_reg]
               /\ IF r.status = "ok"
                  THEN /\ d1' = d[1] /\ d2' = d[2]
                       /\ d1lt' \in LessThanTol(d[1])
                       /\ a' = 1
                       /\ pc' = "linesearch"
                       /\ UNCHANGED <<outcome, converged>>
                  ELSE IF r.status = "ArithmeticError"
                  THEN /\ pc' = "except"
                       /\ UNCHANGED <<d1, d2, d1lt, a, outcome, converged>>
                  ELSE /\ Leave("raised", FALSE)
                       /\ UNCHANGED <<d1, d2, d1lt, a>>
    /\ UNCHANGED <<kind, x0, xs, us, isFeasible, wasFeasible, x_reg, u_reg, cost_try,
                   xs_try, us_try, stop, stoplt, stepLength, iter,
                   maxiter, i, recalc, calls, args, hist>>

\* except ArithmeticError: lines 152-158
HandleArithmeticError ==
    /\ pc = "except"
    /\ recalc' = FALSE
    /\ x_reg' = increaseRegularization(x_reg)
    /\ u_reg' = x_reg'
    /\ obs' = [obs EXCEPT !.incsSinceBwd = Bump(@)]
    /\ IF x_reg' = regMax
       THEN Leave("saturated_backward", FALSE)
       ELSE pc' = "direction" /\ UNCHANGED <<outcome, converged>>
    /\ UNCHANGED <<kind, x0, datas, termData, xs, us, isFeasible, wasFeasible, cost,
                   cost_try, xs_try, us_try, gaps, Qu, Quu, K, k, d1, d2, d1lt, stop,
                   stoplt, stepLength, iter, maxiter, i, a, calls, faults, args, hist>>

\* where the for loop over self.alphas goes after a trial that did not break
NextAlpha ==
    IF a < nAlphas
    THEN a' = a + 1 /\ pc' = "linesearch"
    ELSE a' = a /\ pc' = "update"

\* one pass of "for a in self.alphas": lines 163-174
TryStep ==
    /\ pc = "linesearch"
    /\ \E f \in forwardPass(kind, xs, us, K, k, xs_try, us_try, datas) :
       \E imp \in (IF f.ok /\ ~d1lt /\ isFeasible
                   THEN ImprovedOutcomes(cost - f.ctry, ExpectedDV(d1, d2))
                   ELSE {FALSE}) :
         LET accept == TrialCompleted(f.ok) /\ AcceptStep(d1lt, isFeasible, imp)
             c == setCandidate(f.xs_try, f.us_try, TRUE)
         IN /\ f.fault => faults < MaxFaults
            /\ faults' = (IF f.fault THEN faults + 1 ELSE faults)
            /\ xs_try' = f.xs_try /\ us_try' = f.us_try /\ datas' = f.datas
            /\ termData' = (IF f.written = T
                            THEN [termData EXCEPT !.cost = f.termCost] ELSE termData)
            /\ cost_try' = (IF f.ok THEN f.ctry ELSE cost_try)
            /\ cost' = CostAfterTrial(accept, cost, cost_try')
            /\ IF accept
               THEN /\ wasFeasible' = FeasibleBeforeStep(isFeasible)
                    /\ xs' = c.xs /\ us' = c.us /\ isFeasible' = c.isFeasible
                    /\ a' = a /\ pc' = "update"
               ELSE /\ UNCHANGED <<wasFeasible, xs, us, isFeasible>>
                    /\ NextAlpha
            /\ obs' = [obs EXCEPT
                         !.nFwd = Min(@ + 1, nAlphas + 1),
                         !.nCommit = IF accept THEN Bump(@) ELSE @,
                         !.accepted = @ \/ accept,
                         !.pre = IF accept THEN <<>>
                                 ELSE <<xs, us, cost, isFeasible, wasFeasible, K, k,
                                        x_reg, u_reg>>,
                         !.trial = [step |-> alphas[a], ok |-> f.ok,
                                    improved |-> imp, committed |-> accept,
                                    written |-> f.written]]
            /\ hist' = IF accept
                       THEN [hist EXCEPT !.committed = <<f.xs_try, f.us_try>>,
                                         !.feasAtAccept = obs.feasAtStart,
                                         !.nAccepted = Bump(@)]
                       ELSE hist
    /\ UNCHANGED <<kind, x0, x_reg, u_reg, gaps, Qu, Quu, K, k, d1, d2, d1lt, stop,
                   stoplt, stepLength, iter, maxiter, i, recalc, outcome, converged,
                   calls, args>>

\* the end of an iteration: lines 175-189
Update ==
    /\ pc = "update"
    /\ LET dec == DecreaseAfterSearch(a)
           inc == IncreaseAfterSearch(a)
           r1 == IF dec THEN decreaseRegularization(x_reg) ELSE x_reg
           r2 == IF inc THEN increaseRegularization(r1) ELSE r1
           st == stoppingCriteria(Qu)
       IN /\ x_reg' = r2
          /\ u_reg' = (IF dec \/ inc THEN r2 ELSE u_reg)
          /\ IF inc /\ r2 = regMax
             THEN /\ Leave("saturated_linesearch", FALSE)
                  /\ UNCHANGED <<stepLength, iter, stop, stoplt, i>>
             ELSE /\ stepLength' = alphas[a]
                  /\ iter' = i
                  /\ stop' = st
                  /\ stoplt' \in LessThanTol(st)
                  /\ IF ConvergenceTest(wasFeasible, stoplt')
                     THEN Leave("converged", TRUE) /\ i' = i
                     ELSE /\ i' = i + 1
                          /\ pc' = "loop"
                          /\ UNCHANGED <<outcome, converged>>
          /\ obs' = [obs EXCEPT !.regOps = (IF dec THEN <<"dec">> ELSE <<>>)
                                           \o (IF inc THEN <<"inc">> ELSE <<>>),
                                 !.updated = TRUE,
                                 !.stopSmall = ~(inc /\ r2 = regMax) /\ stoplt']
    /\ UNCHANGED <<kind, x0, datas, termData, xs, us, isFeasible, wasFeasible, cost,
                   cost_try, xs_try, us_try, gaps, Qu, Quu, K, k, d1, d2, d1lt,
                   maxiter, recalc, a, calls, faults, args, hist>>

Step ==
    \/ LoopHead
    \/ ComputeDirection
    \/ HandleArithmeticError
    \/ TryStep
    \/ Update

\* one solve call on a freshly constructed solver
Next == Solve(1) \/ Step

Spec == Init /\ [][Next]_vars

InitZero == Init /\ kind = "zero"

\* one solve call on the zero-cost problem, run to its end: the interpreter
\* keeps executing the call
FairSpec == InitZero /\ [][Next]_vars /\ WF_vars(Step)

\* several solve calls on one solver object, for the zero-cost problem
NextReuse == Solve(MaxCalls) \/ Step

ReuseSpec == InitZero /\ [][NextReuse]_vars

\* ---------------------------------------------------------------------------
\* Properties
\* ---------------------------------------------------------------------------

\* the iteration has run its regularization update (lines 175-180)
Updated == pc \in {"loop", "done"} /\ obs.updated

\* C1: whatever arithmetic failures the backward pass meets (non-finite value
\* derivatives, a Quu that cannot be factorised), solve ends by returning a
\* list: no exception leaves the call.
C1_NoFailureEscapes ==
    pc = "done" =>
        outcome \in {"converged", "maxiter", "saturated_backward",
                     "saturated_linesearch"}

\* C2: the retry loop of an iteration ends: from every backward attempt the
\* solver reaches the line search or returns, after finitely many
\* regularization increases.
C2_RetryLoopEnds == (pc = "direction") ~> (pc \in {"linesearch", "done"})

\* C3: the end-of-iteration increase of the regularization (and its saturation
\* return) happens exactly when no step size of the line search was accepted.
C3_IncreaseOnlyWithoutAccept ==
    Updated =>
        /\ (\E n \in 1..Len(obs.regOps) : obs.regOps[n] = "inc") <=> ~obs.accepted
        /\ outcome = "saturated_linesearch" => ~obs.accepted

RegMaxOf(r1, r2) == IF RegLess(r1, r2) THEN r2 ELSE r1

Decreased == \E n \in 1..Len(obs.regOps) : obs.regOps[n] = "dec"

\* C4: after an iteration that accepted a step size > 0.5, x_reg and u_reg
\* both equal max(r / regFactor, regMin), r being the regularization of the
\* iteration's successful backward pass, which is strictly below r when
\* r > regMin; an iteration whose accepted or last tried step size is <= 0.5
\* does not decrease the regularization.
C4_DecreaseAfterFullStep ==
    Updated =>
        /\ (obs.accepted /\ obs.trial.step > th_step) =>
              /\ x_reg = RegMaxOf(RegOverFactor(obs.rUsed), regMin)
              /\ u_reg = x_reg
              /\ RegLess(regMin, obs.rUsed) => RegLess(x_reg, obs.rUsed)
        /\ obs.trial.step <= th_step =>
              /\ ~Decreased
              /\ ~RegLess(x_reg, obs.rUsed)

C4_Witness ==
    /\ Updated /\ obs.accepted /\ obs.trial.step > th_step
    /\ RegLess(regMin, obs.rUsed) /\ RegLess(x_reg, obs.rUsed)

\* C5 as stated: solve returns converged=True at the end of an iteration iff
\* the stopping criterion computed in it is below th_stop and the candidate
\* held at the start of that iteration was flagged feasible, also when the
\* iteration accepted no step.
C5_ConvergedIffFeasibleAtStart ==
    Updated => ((pc = "done" /\ converged) <=> (obs.stopSmall /\ obs.feasAtStart))

\* C5 amended: solve returns converged=True at the end of an iteration iff
\* the stopping criterion computed in it is below th_stop and the candidate
\* held at the start of the most recent iteration of the call that accepted a
\* step (this iteration included) was flagged feasible.
C5_ConvergedIffFeasibleAtLastAccept ==
    Updated => ((pc = "done" /\ converged) <=> (obs.stopSmall /\ hist.feasAtAccept))

C5_Witness ==
    /\ Updated /\ ~obs.accepted /\ obs.feasAtStart /\ obs.stopSmall
    /\ ~hist.feasAtAccept /\ ~converged

\* the zero-cost problem from the zero state, with the zero guess and a
\* positive initial regularization
ZeroCase ==
    /\ kind = "zero" /\ x0 = 0
    /\ args.regInit.none \/ args.regInit.val # RegZero
    /\ args.xs = [n \in 1..(T + 1) |-> 0]
    /\ args.us = [s \in Stages |-> 0]

\* C6 as stated: on the zero-cost problem with identity dynamics, zero initial
\* state and zero guess, solve returns converged=True at the end of the first
\* iteration with stopping criterion 0, for either value of the feasibility
\* flag.
C6_ZeroProblemConvergesInOne ==
    (pc = "done" /\ ZeroCase /\ args.maxiter >= 1) =>
        converged /\ iter = 0 /\ stop = "z"

\* C6 amended: on that problem solve converges with stopping criterion 0 at
\* the end of the first iteration when the guess is flagged feasible, and at
\* the end of the second iteration when it is not (the default); with one
\* iteration allowed and the guess not flagged feasible it does not converge.
C6_ZeroProblemConverges ==
    (pc = "done" /\ ZeroCase) =>
        /\ (args.isFeasible /\ args.maxiter >= 1) =>
              converged /\ iter = 0 /\ stop = "z"
        /\ (~args.isFeasible /\ args.maxiter >= 2) =>
              converged /\ iter = 1 /\ stop = "z"
        /\ (~args.isFeasible /\ args.maxiter <= 1) => ~converged

C6_Witness ==
    pc = "done" /\ ZeroCase /\ ~args.isFeasible /\ converged /\ iter = 1

\* C7: solve runs at most maxiter iterations; when they complete without a
\* convergence or saturation return it returns converged=False with the
\* committed candidate, that of the last accepted step or else the initial
\* guess; with maxiter = 0 it returns the initial guess and converged=False.
C7_IterationBudget ==
    /\ pc # "idle" => (i <= maxiter /\ hist.nIter <= maxiter)
    /\ (pc = "done" /\ outcome = "maxiter") =>
          /\ ~converged
          /\ hist.nIter = maxiter
          /\ <<xs, us>> = hist.committed
          /\ hist.nAccepted = 0 => (xs = args.xs /\ us = args.us)
    /\ (pc = "done" /\ maxiter = 0) =>
          outcome = "maxiter" /\ ~converged /\ xs = args.xs /\ us = args.us

C7_Witness ==
    /\ pc = "done" /\ outcome = "maxiter" /\ maxiter = MaxIter
    /\ hist.nAccepted >= 1 /\ xs # args.xs

\* the first calc of the running call has been made, and no later one
AfterFirstCalc == pc \in {"except", "direction", "linesearch"} /\ i = 0 /\ obs.nCalc = 1

\* C8: when the guess of a call is the dynamics rollout from the problem's
\* initial state, every gap is zero after the first calc of the call, whether
\* or not the guess is flagged feasible and whatever calls came before.
C8_RolloutGuessHasZeroGaps ==
    (AfterFirstCalc /\ IsRollout(kind, x0, args.xs, args.us)) =>
        \A n \in 1..(T + 1) : gaps[n] = 0

\* C9: an iteration evaluates the problem once, before its first backward
\* attempt; a retry after an arithmetic failure works on the same stage data
\* and gaps with the regularization increased exactly once since the failed
\* attempt.
C9_OneCalcPerIteration ==
    /\ (pc = "direction" /\ ~obs.bwdTried) => (recalc /\ obs.nCalc = 0)
    /\ (pc \in {"direction", "except"} /\ obs.bwdTried) =>
          /\ obs.nCalc = 1
          /\ <<datas, termData, gaps>> = obs.snapshot
    /\ (pc = "direction" /\ obs.bwdTried) =>
          /\ ~recalc
          /\ obs.incsSinceBwd = 1
          /\ x_reg = increaseRegularization(obs.rUsed)
          /\ u_reg = x_reg
    /\ pc \in {"linesearch", "update"} => obs.nCalc = 1
    /\ Updated => obs.nCalc = 1

C9_Witness ==
    /\ pc = "direction" /\ obs.bwdTried /\ obs.nCalc = 1
    /\ RegLess(obs.rUsed, x_reg) /\ RegLess(regMin, obs.rUsed)

\* C10: the line search of an iteration tries the step sizes 2^0 .. 2^-9 in
\* decreasing order, commits the first whose forward pass succeeds and that
\* passes the acceptance test (small d1, or candidate not flagged feasible, or
\* sufficient improvement), and stops there: at most one commit and at most
\* ten forward passes per iteration.
C10_LineSearch ==
    /\ alphas[1] = 2 * th_step /\ alphas[nAlphas] = 1
    /\ \A n \in 1..(nAlphas - 1) : alphas[n] = 2 * alphas[n + 1]
    /\ pc = "linesearch" => (obs.nFwd = a - 1 /\ ~obs.accepted)
    /\ obs.nFwd <= nAlphas /\ obs.nCommit <= 1
    /\ obs.nFwd >= 1 =>
          /\ obs.trial.step = alphas[obs.nFwd]
          /\ obs.trial.committed <=>
                (obs.trial.ok /\ (d1lt \/ ~obs.feasAtStart \/ obs.trial.improved))
          /\ obs.accepted <=> obs.trial.committed
          /\ obs.nCommit = (IF obs.accepted THEN 1 ELSE 0)
          /\ obs.trial.committed =>
                /\ xs = xs_try /\ us = us_try /\ cost = cost_try /\ isFeasible
                /\ pc \in {"update", "loop", "done"}
    /\ pc = "update" => (obs.accepted \/ obs.nFwd = nAlphas)

C10_Witness ==
    /\ pc = "update" /\ obs.accepted /\ obs.nFwd = 3
    /\ obs.feasAtStart /\ ~d1lt /\ obs.trial.improved

\* the last trial of the running line search was not committed
TrialNotCommitted ==
    pc \in {"linesearch", "update"} /\ obs.nFwd >= 1 /\ ~obs.trial.committed

Committed == pc \in {"update", "loop", "done"} /\ obs.accepted

\* C12: a committed candidate is the whole output of one forward pass that
\* ended without arithmetic failure at the accepted step size: the pass wrote
\* all T controls and the T states after the fixed first one, each state being
\* the next state of its predecessor under the control of the same pass, and
\* the committed cost is the pass's total of the running and terminal costs.
C12_CommitIsOneCompletePass ==
    Committed =>
        /\ obs.trial.ok /\ obs.trial.written = T
        /\ obs.trial.step = alphas[a]
        /\ xs = xs_try /\ us = us_try
        /\ \A n \in 1..(T + 1) : xs[n] # NaN
        /\ \A t \in Stages : us[t] # NaN
        /\ \A t \in Stages : xs[t + 1] = ModelCalc(kind, xs[t], us[t]).xnext
        /\ cost = SumSeq([t \in Stages |-> ModelCalc(kind, xs[t], us[t]).cost], T)
                  + TermCalc(kind, xs[T + 1])

C12_Witness ==
    /\ Committed /\ kind = "lq" /\ obs.nFwd >= 2 /\ faults >= 1
    /\ xs # args.xs /\ cost > 0

\* C13: the first tried state is always the problem's initial state, no
\* forward pass writing it; so once a step was accepted in a call, the
\* committed and the returned trajectory start at the problem's initial state,
\* whatever the first state of the guess.
C13_FirstStateIsInitialState ==
    /\ xs_try[1] = x0
    /\ (pc # "idle" /\ hist.nAccepted >= 1) => xs[1] = x0

C13_Witness ==
    /\ pc = "done" /\ outcome \in {"converged", "maxiter"}
    /\ hist.nAccepted >= 1 /\ obs.nFwd >= 1
    /\ args.xs[1] # x0 /\ xs[1] = x0

\* C14: in every state of a solve call in which the candidate is flagged
\* feasible, every stored gap is zero, also when the call started from an
\* infeasible guess that became feasible through an accepted step.
C14_FeasibleHasZeroGaps ==
    (pc # "idle" /\ isFeasible) => \A n \in 1..(T + 1) : gaps[n] = 0

\* the iteration has computed its stopping criterion (line 183)
StopComputed == Updated /\ ~(pc = "done" /\ outcome = "saturated_linesearch")

\* the last backward pass of the iteration wrote the gains of every stage
CompleteBackward == obs.bwd.ok /\ obs.bwd.fresh = Stages

\* what C15 says of forward passes and of d1/d2: they use the gains of one
\* complete backward pass on the current candidate and regularization
ForwardUsesCompleteBackward ==
    pc = "linesearch" =>
        /\ CompleteBackward
        /\ obs.bwd.cand = <<xs, us>>
        /\ obs.rUsed = x_reg /\ u_reg = x_reg
        /\ <<d1, d2>> = expectedImprovement(Qu, Quu, k)

\* C15 as stated: forward passes, d1/d2 and the stopping criterion all use
\* gains and Qu/Quu of one complete backward pass on the current candidate
\* with the current regularization; no forward pass or convergence check
\* follows an aborted backward pass.
C15_UsesCompleteBackwardOnCurrent ==
    /\ ForwardUsesCompleteBackward
    /\ pc = "update" => CompleteBackward
    /\ StopComputed =>
          /\ CompleteBackward
          /\ stop = stoppingCriteria(Qu)
          /\ obs.bwd.cand = <<xs, us>>
          /\ obs.rUsed = x_reg

\* C15 amended: forward passes and d1/d2 use gains and Qu/Quu of one complete
\* backward pass on the current candidate with the current regularization;
\* the stopping criterion uses the Qu of that same pass, that is of the
\* candidate and regularization held before the line search; no forward pass
\* or convergence check follows an aborted backward pass.
C15_UsesCompleteBackward ==
    /\ ForwardUsesCompleteBackward
    /\ pc = "update" => CompleteBackward
    /\ StopComputed =>
          /\ CompleteBackward
          /\ stop = stoppingCriteria(Qu)
          /\ ~obs.accepted => obs.bwd.cand = <<xs, us>>

C15_Witness ==
    /\ StopComputed /\ obs.accepted /\ obs.bwd.cand # <<xs, us>>
    /\ RegLess(regMin, obs.rUsed) /\ args.regInit.none /\ i <= 1

\* C16: during a solve call wasFeasible implies isFeasible and isFeasible
\* never falls back to false; so a converged=True return comes after at least
\* one accepted step with a candidate flagged feasible, and with a guess not
\* flagged feasible not before the second accepted step.
C16_FeasibilityFlags ==
    pc # "idle" =>
        /\ wasFeasible => isFeasible
        /\ (args.isFeasible \/ hist.nAccepted >= 1) => isFeasible
        /\ wasFeasible => hist.nAccepted >= 1
        /\ (wasFeasible /\ ~args.isFeasible) => hist.nAccepted >= 2
        /\ (pc = "done" /\ converged) =>
              /\ hist.nAccepted >= 1
              /\ isFeasible
              /\ ~args.isFeasible => hist.nAccepted >= 2

C16_Witness ==
    /\ pc = "done" /\ converged /\ ~args.isFeasible
    /\ hist.nAccepted = 2 /\ wasFeasible /\ isFeasible

\* the call was started with the default regularization or with a regInit
\* between regMin and regMax
RegInitInRange ==
    \/ args.regInit.none
    \/ ~RegLess(args.regInit.val, regMin) /\ ~RegLess(regMax, args.regInit.val)

\* C17: in every state of a solve call u_reg equals x_reg; and when the call
\* started with the default regularization or a regInit in [regMin, regMax],
\* x_reg stays within [regMin, regMax] through all increases and decreases.
C17_RegularizationBounds ==
    pc # "idle" =>
        /\ u_reg = x_reg
        /\ RegInitInRange => (~RegLess(x_reg, regMin) /\ ~RegLess(regMax, x_reg))

C17_Witness ==
    /\ pc = "done" /\ RegInitInRange /\ ~args.regInit.none
    /\ RegLess(args.regInit.val, x_reg) /\ x_reg = regMax
    /\ RegLess(regMax, RegTimesFactor(args.regInit.val))

====
